---- MODULE Spec2Model ----
(***************************************************************************)
(* Model of autoupdate.py: the change-gated PDF crawl, the per-article     *)
(* metadata resolver and the additive Firestore upload.                    *)
(*                                                                         *)
(* Text is modelled as a sequence of tokens (atomic substrings), so that   *)
(* strip(), lower(), startswith(), the substring tests, unquote() and      *)
(* urljoin() are computed on it rather than assumed.                       *)
(***************************************************************************)
EXTENDS Integers, Sequences, FiniteSets, TLC

\* ------------------------------------------------------------------ bounds
\* Number of runs of main() that a behaviour follows.
MaxRuns == 2
\* Longest list of inline <img src=...> tags on a page.
MaxImgs == 2

\* ------------------------------------------------------------------- text
\* The empty string.
Empty == << >>

\* Whitespace tokens, removed by str.strip().
WS == {" "}

RECURSIVE lstrip(_)
lstrip(s) == IF s # Empty /\ Head(s) \in WS THEN lstrip(Tail(s)) ELSE s

RECURSIVE rstrip(_)
rstrip(s) ==
  IF s # Empty /\ s[Len(s)] \in WS THEN rstrip(SubSeq(s, 1, Len(s) - 1)) ELSE s

\* str.strip()
strip(s) == rstrip(lstrip(s))

\* str.lower(), token by token.
LowerTok(t) ==
  CASE t = "/LOGO.png" -> "/logo.png"
    [] t = "/Default.png" -> "/default.png"
    [] OTHER -> t

lower(s) == [i \in 1..Len(s) |-> LowerTok(s[i])]

\* The keywords a token holds as substrings (case-sensitive, as `in` is).
Keywords(t) ==
  CASE t = "/logo.png" -> {"logo"}
    [] t = "/default.png" -> {"default"}
    [] t = "/blank.gif" -> {"blank"}
    [] t = "/icon.svg" -> {"icon", "svg"}
    [] OTHER -> {}

\* kw in s
Contains(s, kw) == \E i \in 1..Len(s) : kw \in Keywords(s[i])

\* s.startswith(('http://', 'https://'))
StartsWithHttp(s) == s # Empty /\ s[1] \in {"http://", "https://"}

\* ----------------------------------------------------------------- urljoin
SchemeToks == {"http://", "https://", "data:", "ftp://"}
\* A path segment written without its leading slash, and with it.
Slashed(t) == CASE t = "b.jpg" -> "/b.jpg" [] OTHER -> t
RelativeToks == {"b.jpg"}

\* urllib.parse.urljoin(base, ref) for an http(s) base <<scheme, host, seg...>>
urljoin(base, ref) ==
  LET r == ref
      dir == IF Len(base) > 2 THEN SubSeq(base, 1, Len(base) - 1) ELSE base
  IN  IF r = Empty THEN base
      ELSE IF r[1] \in SchemeToks THEN r
      ELSE IF r[1] = "//" THEN <<base[1]>> \o Tail(r)
      ELSE IF r[1] \in RelativeToks THEN dir \o <<Slashed(r[1])>> \o Tail(r)
      ELSE SubSeq(base, 1, 2) \o r

\* ------------------------------------------------------------ parsed pages
\* A tag that soup.find() did not find (None), one without the attribute
\* read from it, and one carrying it.
NoTag == [present |-> FALSE, has |-> FALSE, content |-> Empty]
BareTag == [present |-> TRUE, has |-> FALSE, content |-> Empty]
Tag(c) == [present |-> TRUE, has |-> TRUE, content |-> c]

\* tag.get('content') is truthy: the tag was found, has the attribute, and
\* the attribute is not the empty string.
Truthy(tag) == tag.present /\ tag.has /\ tag.content # Empty

\* The record get_metadata() returns from its except branch.
EmptyRecord(url) ==
  [title |-> Empty, description |-> Empty, img |-> Empty, link |-> url]

\* Title resolution with the meta tags asked before the <title> element.
ResolveTitle_meta_first(page) ==
  LET title_text == IF page.title.present THEN strip(page.title.content) ELSE Empty
  IN  IF Truthy(page.og_title) THEN strip(page.og_title.content)
      ELSE IF Truthy(page.tw_title) THEN strip(page.tw_title.content)
      ELSE title_text

\* Lines 70-79: <title> first, then og:title, then twitter:title.
ResolveTitle(page) ==
  LET title_text == IF page.title.present THEN strip(page.title.content) ELSE Empty
  IN  IF title_text # Empty THEN title_text
      ELSE IF Truthy(page.og_title) THEN strip(page.og_title.content)
      ELSE IF Truthy(page.tw_title) THEN strip(page.tw_title.content)
      ELSE Empty

\* Lines 81-86: the first tag FOUND is kept (a Tag is always truthy), and its
\* content is read only afterwards.
ResolveDescription(page) ==
  LET meta_desc ==
        IF page.desc.present THEN page.desc
        ELSE IF page.og_desc.present THEN page.og_desc
        ELSE page.tw_desc
  IN  IF Truthy(meta_desc) THEN strip(meta_desc.content) ELSE Empty

\* Lines 98-105: the first inline image that passes the filters.
RECURSIVE FirstInlineImage(_, _)
FirstInlineImage(url, imgs) ==
  IF imgs = << >> THEN Empty
  ELSE LET src == Head(imgs)
           abs_src == urljoin(url, src)
       IN  IF /\ src # Empty
              /\ ~Contains(lower(src), "logo")
              /\ ~Contains(lower(src), "icon")
              /\ ~Contains(lower(src), "svg")
              /\ StartsWithHttp(abs_src)
           THEN abs_src
           ELSE FirstInlineImage(url, Tail(imgs))

\* Lines 88-107.
ResolveImage(url, page) ==
  LET meta_img ==
        IF page.og_image.present THEN page.og_image
        ELSE IF page.tw_image.present THEN page.tw_image
        ELSE page.link_image
      stripped == strip(meta_img.content)
      from_meta ==
        IF Truthy(meta_img)
        THEN IF StartsWithHttp(stripped) THEN stripped ELSE urljoin(url, stripped)
        ELSE Empty
      img_url == IF from_meta # Empty THEN from_meta
                 ELSE FirstInlineImage(url, page.imgs)
  IN  IF /\ img_url # Empty
         /\ \/ Contains(lower(img_url), "logo")
            \/ Contains(lower(img_url), "default")
            \/ Contains(lower(img_url), "blank")
      THEN Empty
      ELSE img_url

\* What happens to the request and the decoding of one article page.
FetchOutcomes == {"ok", "unreachable", "http_error", "encoding_none", "parse_error"}

\* The body of the try block, lines 60-114: a record, or the exception that
\* leaves it.
Raised == [raised |-> TRUE, rec |-> EmptyRecord(Empty)]
TryMetadata(url, page) ==
  IF page.fetch # "ok" THEN Raised
  ELSE [raised |-> FALSE,
        rec |-> [title |-> ResolveTitle(page),
                 description |-> ResolveDescription(page),
                 img |-> ResolveImage(url, page),
                 link |-> url]]

\* get_metadata without its except branch.
get_metadata_uncaught(url, page) == TryMetadata(url, page)

\* get_metadata: the try block and the except branch, lines 115-122.
get_metadata(url, page) ==
  LET r == TryMetadata(url, page)
  IN  IF r.raised THEN [raised |-> FALSE, rec |-> EmptyRecord(url)] ELSE r

\* The validity test without the image.
Informative_without_img(noticia) ==
  noticia.title # Empty \/ noticia.description # Empty

\* line 172: the record carries a title, a description or an image.
Informative(noticia) ==
  noticia.title # Empty \/ noticia.description # Empty \/ noticia.img # Empty

\* ------------------------------------------------------ extract_clean_urls
\* Tokens the character class of url_pattern (line 40) does not match.
NonUrlToks == {" ", "SHY", "\""}

\* The match url_pattern.findall() takes from one word of the text: from the
\* scheme to the last token before one the character class rejects; the
\* pattern wants at least one character after "://".
RECURSIVE UrlPrefix(_)
UrlPrefix(w) ==
  IF w = Empty \/ Head(w) \in NonUrlToks THEN Empty
  ELSE <<Head(w)>> \o UrlPrefix(Tail(w))

\* Lines 39-42, one word at a time.
RECURSIVE findall(_)
findall(words) ==
  IF words = << >> THEN << >>
  ELSE LET w == Head(words)
           m == UrlPrefix(w)
       IN  (IF StartsWithHttp(w) /\ Len(m) >= 2 THEN <<m>> ELSE << >>)
           \o findall(Tail(words))

\* Line 46: re.sub() of whitespace, soft hyphens and zero-width characters.
RemoveInvisible(s) == SelectSeq(s, LAMBDA t : t \notin {" ", "SHY"})

\* Line 47: urllib.parse.unquote
UnquoteTok(t) ==
  CASE t = "%2E" -> "."
    [] t = "%20" -> " "
    [] OTHER -> t

unquote(s) == [i \in 1..Len(s) |-> UnquoteTok(s[i])]

\* The characters line 48 takes off the end of a URL (once).
TrailingPunct == {".", ",", ";", ":", ">", "<", "[", "]", "{", "}", "\"", "'"}

\* Lines 46-50.
CleanUrl(url) ==
  LET a == unquote(RemoveInvisible(url))
      b == IF a # Empty /\ a[Len(a)] \in TrailingPunct
           THEN SubSeq(a, 1, Len(a) - 1) ELSE a
  IN  strip(b)

\* Lines 42-53 on the text of the PDF: the set behind final_urls.
extract_clean_urls(words) ==
  LET urls == findall(words)
      cleaned_urls == [i \in 1..Len(urls) |-> CleanUrl(urls[i])]
  IN  {cleaned_urls[i] : i \in {j \in 1..Len(urls) : StartsWithHttp(cleaned_urls[j])}}

\* --------------------------------------------------------------- upstream
\* What a GET of PDF_URL can return: the bulletin in two editions, and an
\* error page.
Bodies == {"pdfA", "pdfB", "html404"}

Responses ==
  { [status |-> 200, body |-> "pdfA"],
    [status |-> 200, body |-> "pdfB"],
    [status |-> 404, body |-> "html404"] }

\* pdfplumber.open() succeeds on the body (line 32).
IsPdf(body) == body \in {"pdfA", "pdfB"}

\* The words page.extract_text() yields for a body (lines 33-37).
PdfText(body) ==
  CASE body = "pdfA" ->
         << <<"https://", "elpais.com", "/a", ".">>,
            <<"https://", "elpais.com", "/a">>,
            <<"https://", "labancaria.org", "/b", "%2E">> >>
    [] body = "pdfB" ->
         << <<"http://", "pagina12.com.ar", "/c", "%20">>,
            <<"ftp://", "pagina12.com.ar", "/c">>,
            <<"http://", "pagina12.com.ar", "/c", "SHY", "d">> >>
    [] OTHER -> << >>

\* hashlib.md5 of a body (lines 126-129): equal bytes give equal digests, and
\* the bodies followed here have different ones.
Md5(body) ==
  CASE body = "pdfA" -> "md5:a3f1"
    [] body = "pdfB" -> "md5:7c0e"
    [] OTHER -> "md5:d41d"

\* ------------------------------------------------------------ article pages
BlankPage ==
  [fetch |-> "ok", title |-> NoTag, og_title |-> NoTag, tw_title |-> NoTag,
   desc |-> NoTag, og_desc |-> NoTag, tw_desc |-> NoTag,
   og_image |-> NoTag, tw_image |-> NoTag, link_image |-> NoTag, imgs |-> << >>]

\* Requests that fail, responses that are not 2xx, bytes chardet finds no
\* encoding for, and markup the parser rejects.
FailedPages == {[BlankPage EXCEPT !.fetch = f] : f \in FetchOutcomes \ {"ok"}}

\* Sequences over S of length at most n.
SeqsUpTo(S, n) == UNION {[1..k -> S] : k \in 0..n}

\* <title> elements, and meta tags of the title and description schemes.
TitleElements == {NoTag, Tag(Empty), Tag(<<" ">>), Tag(<<" ", "Title", " ">>)}
MetaTexts(word) ==
  {NoTag, BareTag, Tag(Empty), Tag(<<" ">>), Tag(<<word>>), Tag(<<" ", word>>)}

\* Image addresses found in meta tags and in <img src>.
MetaImageContents ==
  { Empty, <<" ">>,
    <<"https://", "cdn.example", "/a.jpg">>,
    <<" ", "/img", "/a.jpg", " ">>,
    <<"/img", "/a.jpg">>,
    <<"b.jpg">>,
    <<"//", "cdn.example", "/a.jpg">>,
    <<"https://", "cdn.example", "/LOGO.png">>,
    <<"/Default.png">>,
    <<"data:", "AAAA">> }
InlineSources ==
  { Empty, <<"/icon.svg">>, <<"/img", "/a.jpg">>, <<"data:", "AAAA">>,
    <<"/blank.gif">>, <<"b.jpg">> }

TitlePages ==
  {[BlankPage EXCEPT !.title = t, !.og_title = o, !.tw_title = w] :
     t \in TitleElements, o \in MetaTexts("OgTitle"), w \in MetaTexts("TwTitle")}
DescriptionPages ==
  {[BlankPage EXCEPT !.desc = d, !.og_desc = o, !.tw_desc = w] :
     d \in MetaTexts("Desc"), o \in MetaTexts("OgDesc"), w \in MetaTexts("TwDesc")}
ImagePages ==
  {[BlankPage EXCEPT !.og_image = o, !.tw_image = w, !.link_image = l, !.imgs = i] :
     o \in {NoTag, BareTag} \cup {Tag(c) : c \in MetaImageContents},
     w \in {NoTag, Tag(<<"https://", "cdn.example", "/a.jpg">>), Tag(<<"/LOGO.png">>)},
     l \in {NoTag, BareTag},
     i \in SeqsUpTo(InlineSources, MaxImgs)}
\* Pages that carry tags of all three kinds at once.
MixedPages ==
  {[BlankPage EXCEPT !.title = t, !.og_title = o, !.desc = d, !.og_desc = e,
                     !.og_image = g, !.imgs = i] :
     t \in {NoTag, Tag(<<"Title">>)}, o \in {NoTag, Tag(<<"OgTitle">>)},
     d \in {BareTag, Tag(<<"Desc">>)}, e \in {NoTag, Tag(<<"OgDesc">>)},
     g \in {NoTag, Tag(<<"/img", "/a.jpg">>)},
     i \in {<< >>, <<<<"b.jpg">>>>}}

\* The pages get_metadata is applied to on its own.
Pages == TitlePages \cup DescriptionPages \cup ImagePages \cup MixedPages \cup FailedPages
PageUrls ==
  { <<"https://", "site.example", "/news", "/x">>, <<"http://", "elpais.com">> }

\* The pages an article URL answers with during a run of main().
ArticlePages ==
  { [BlankPage EXCEPT !.title = Tag(<<"Title">>), !.desc = Tag(<<"Desc">>),
                      !.og_image = Tag(<<"/img", "/a.jpg">>)],
    [BlankPage EXCEPT !.imgs = <<<<"b.jpg">>>>],
    BlankPage } \cup FailedPages

\* ------------------------------------------------------------------ state
VARIABLES
  upstream,       \* what a GET of PDF_URL returns now
  hash_file,      \* last_pdf_hash.txt
  pdf_file,       \* Sintesis.pdf
  noticias_json,  \* noticias.json
  collection,     \* the documents of the Firestore collection 'noticias'
  pc,             \* where the current run of main() stands
  new_hash,       \* main's new_hash
  urls,           \* main's urls
  todo,           \* the URLs the loop of line 169 has not reached yet
  news_list,      \* main's news_list
  abort_at,       \* the call whose exception ended the run
  run,            \* how many runs of main() have started
  start0,         \* the files and the collection when the run started
  fetched,        \* the responses the run's GETs of PDF_URL returned
  fail_snap,      \* the files and the collection when a GET of PDF_URL failed
  prev,           \* the previous run: whether it detected a change, its responses
  resolved,       \* what get_metadata returned in this run, in order
  m_pc, m_url, m_page, m_rec   \* get_metadata applied on its own

vars ==
  <<upstream, hash_file, pdf_file, noticias_json, collection, pc, new_hash, urls,
    todo, news_list, abort_at, run, start0, fetched, fail_snap, prev, resolved,
    m_pc, m_url, m_page, m_rec>>

main_vars ==
  <<upstream, hash_file, pdf_file, noticias_json, collection, pc, new_hash, urls,
    todo, news_list, abort_at, run, start0, fetched, fail_snap, prev, resolved>>
meta_vars == <<m_pc, m_url, m_page, m_rec>>

NoFile == [exists |-> FALSE, text |-> Empty]
NoJson == [exists |-> FALSE, data |-> << >>]
NoPdf == [exists |-> FALSE, body |-> "none"]

Snapshot ==
  [hash_file |-> hash_file, pdf_file |-> pdf_file,
   noticias_json |-> noticias_json, collection |-> collection]

InitMain ==
  /\ upstream \in Responses
  /\ hash_file = NoFile
  /\ pdf_file = NoPdf
  /\ noticias_json = NoJson
  /\ collection = << >>
  /\ pc = "start"
  /\ new_hash = Empty
  /\ urls = {}
  /\ todo = {}
  /\ news_list = << >>
  /\ abort_at = "none"
  /\ run = 1
  /\ start0 = [hash_file |-> NoFile, pdf_file |-> NoPdf,
               noticias_json |-> NoJson, collection |-> << >>]
  /\ fetched = << >>
  /\ fail_snap = << >>
  /\ prev = [detected |-> FALSE, fetched |-> << >>, new_hash |-> Empty]
  /\ resolved = << >>

InitMetaIdle ==
  /\ m_pc = "idle"
  /\ m_url = Empty
  /\ m_page = BlankPage
  /\ m_rec = EmptyRecord(Empty)

Init == InitMain /\ InitMetaIdle

\* ------------------------------------------------------------ the upstream
\* The publisher replaces the bulletin, or the server starts or stops failing.
\* main() reads the upstream only in its two GETs, so a change matters only
\* before one of them.
Publish ==
  /\ pc \in {"start", "detected"}
  /\ \E r \in Responses \ {upstream} : upstream' = r
  /\ UNCHANGED <<hash_file, pdf_file, noticias_json, collection, pc, new_hash, urls,
                 todo, news_list, abort_at, run, start0, fetched, fail_snap, prev,
                 resolved>>
  /\ UNCHANGED meta_vars

\* ----------------------------------------------------------------- main()
\* already_processed, lines 131-136.
already_processed_inverted(h) ==
  IF hash_file.exists THEN strip(hash_file.text) # h ELSE FALSE

already_processed(h) ==
  IF hash_file.exists THEN strip(hash_file.text) = h ELSE FALSE

\* A response whose status is not 2xx.
BadStatus(r) == r.status \notin 200..299

\* Line 156, get_remote_pdf_hash: the GET answers, whatever its status, and the
\* body is hashed.
HashFetch ==
  /\ pc = "start"
  /\ new_hash' = <<Md5(upstream.body)>>
  /\ fetched' = Append(fetched, upstream)
  /\ fail_snap' = IF BadStatus(upstream) /\ fail_snap = << >>
                  THEN <<Snapshot>> ELSE fail_snap
  /\ pc' = "hashed"
  /\ UNCHANGED <<upstream, hash_file, pdf_file, noticias_json, collection, urls,
                 todo, news_list, abort_at, run, start0, prev, resolved>>
  /\ UNCHANGED meta_vars

\* Line 156: the GET raises (the resource is unreachable) and main() ends.
HashFetchFails ==
  /\ pc = "start"
  /\ fail_snap' = IF fail_snap = << >> THEN <<Snapshot>> ELSE fail_snap
  /\ pc' = "aborted"
  /\ abort_at' = "hash"
  /\ UNCHANGED <<upstream, hash_file, pdf_file, noticias_json, collection, new_hash,
                 urls, todo, news_list, run, start0, fetched, prev, resolved>>
  /\ UNCHANGED meta_vars

\* Lines 157-159: the fingerprint is the stored one and main() returns.
Skip ==
  /\ pc = "hashed"
  /\ already_processed(new_hash)
  /\ pc' = "skipped"
  /\ UNCHANGED <<upstream, hash_file, pdf_file, noticias_json, collection, new_hash,
                 urls, todo, news_list, abort_at, run, start0, fetched, fail_snap,
                 prev, resolved>>
  /\ UNCHANGED meta_vars

\* Line 157 with save_new_hash called as soon as the change is seen.
DetectAndSave ==
  /\ pc = "hashed"
  /\ ~already_processed(new_hash)
  /\ hash_file' = [exists |-> TRUE, text |-> new_hash]
  /\ pc' = "detected"
  /\ UNCHANGED <<upstream, pdf_file, noticias_json, collection, new_hash,
                 urls, todo, news_list, abort_at, run, start0, fetched, fail_snap,
                 prev, resolved>>
  /\ UNCHANGED meta_vars

\* Lines 157, 160: the fingerprint differs and main() goes on.
Detect ==
  /\ pc = "hashed"
  /\ ~already_processed(new_hash)
  /\ pc' = "detected"
  /\ UNCHANGED <<upstream, hash_file, pdf_file, noticias_json, collection, new_hash,
                 urls, todo, news_list, abort_at, run, start0, fetched, fail_snap,
                 prev, resolved>>
  /\ UNCHANGED meta_vars

\* Lines 161-163: the second GET answers, whatever its status, and its body
\* is written to Sintesis.pdf.
Download ==
  /\ pc = "detected"
  /\ pdf_file' = [exists |-> TRUE, body |-> upstream.body]
  /\ fetched' = Append(fetched, upstream)
  /\ fail_snap' = IF BadStatus(upstream) /\ fail_snap = << >>
                  THEN <<Snapshot>> ELSE fail_snap
  /\ pc' = "downloaded"
  /\ UNCHANGED <<upstream, hash_file, noticias_json, collection, new_hash, urls,
                 todo, news_list, abort_at, run, start0, prev, resolved>>
  /\ UNCHANGED meta_vars

\* Line 161: the second GET raises and main() ends.
DownloadFails ==
  /\ pc = "detected"
  /\ fail_snap' = IF fail_snap = << >> THEN <<Snapshot>> ELSE fail_snap
  /\ pc' = "aborted"
  /\ abort_at' = "download"
  /\ UNCHANGED <<upstream, hash_file, pdf_file, noticias_json, collection, new_hash,
                 urls, todo, news_list, run, start0, fetched, prev, resolved>>
  /\ UNCHANGED meta_vars

\* Line 164, save_new_hash.
SaveHash ==
  /\ pc = "downloaded"
  /\ hash_file' = [exists |-> TRUE, text |-> new_hash]
  /\ pc' = "saved"
  /\ UNCHANGED <<upstream, pdf_file, noticias_json, collection, new_hash, urls,
                 todo, news_list, abort_at, run, start0, fetched, fail_snap, prev,
                 resolved>>
  /\ UNCHANGED meta_vars

\* Lines 166-168: the links of the file just written.
Extract ==
  /\ pc = "saved"
  /\ IsPdf(pdf_file.body)
  /\ urls' = extract_clean_urls(PdfText(pdf_file.body))
  /\ todo' = urls'
  /\ news_list' = << >>
  /\ pc' = "loop"
  /\ UNCHANGED <<upstream, hash_file, pdf_file, noticias_json, collection, new_hash,
                 abort_at, run, start0, fetched, fail_snap, prev, resolved>>
  /\ UNCHANGED meta_vars

\* Line 166: pdfplumber cannot open what was written, and main() ends.
ExtractFails ==
  /\ pc = "saved"
  /\ ~IsPdf(pdf_file.body)
  /\ pc' = "aborted"
  /\ abort_at' = "extract"
  /\ UNCHANGED <<upstream, hash_file, pdf_file, noticias_json, collection, new_hash,
                 urls, todo, news_list, run, start0, fetched, fail_snap, prev,
                 resolved>>
  /\ UNCHANGED meta_vars

\* Lines 169-175, one turn of the loop: the set behind urls is walked in an
\* order the program does not choose.
Process ==
  /\ pc = "loop"
  /\ \E url \in todo, page \in ArticlePages :
       LET r == get_metadata(url, page)
       IN  IF r.raised
           THEN /\ pc' = "aborted"
                /\ abort_at' = "metadata"
                /\ UNCHANGED <<todo, news_list, resolved>>
           ELSE /\ todo' = todo \ {url}
                /\ news_list' = IF Informative(r.rec)
                                THEN Append(news_list, r.rec) ELSE news_list
                /\ resolved' = Append(resolved,
                                 [link |-> url, failed |-> page.fetch # "ok",
                                  rec |-> r.rec])
                /\ UNCHANGED <<pc, abort_at>>
  /\ UNCHANGED <<upstream, hash_file, pdf_file, noticias_json, collection, new_hash,
                 urls, run, start0, fetched, fail_snap, prev>>
  /\ UNCHANGED meta_vars

\* Lines 177-180: the loop is over and there is news: noticias.json is written.
WriteJson ==
  /\ pc = "loop"
  /\ todo = {}
  /\ news_list # << >>
  /\ noticias_json' = [exists |-> TRUE, data |-> news_list]
  /\ pc' = "upload"
  /\ UNCHANGED <<upstream, hash_file, pdf_file, collection, new_hash, urls, todo,
                 news_list, abort_at, run, start0, fetched, fail_snap, prev,
                 resolved>>
  /\ UNCHANGED meta_vars

\* Lines 182-183: the loop is over and there is no news.
NoNews ==
  /\ pc = "loop"
  /\ todo = {}
  /\ news_list = << >>
  /\ pc' = "done"
  /\ UNCHANGED <<upstream, hash_file, pdf_file, noticias_json, collection, new_hash,
                 urls, todo, news_list, abort_at, run, start0, fetched, fail_snap,
                 prev, resolved>>
  /\ UNCHANGED meta_vars

\* Line 181, upload_json_to_firestore: every record of noticias.json is added.
Upload ==
  /\ pc = "upload"
  /\ collection' = collection \o noticias_json.data
  /\ pc' = "done"
  /\ UNCHANGED <<upstream, hash_file, pdf_file, noticias_json, new_hash, urls, todo,
                 news_list, abort_at, run, start0, fetched, fail_snap, prev,
                 resolved>>
  /\ UNCHANGED meta_vars

\* Lines 143-151: the credentials, the client or one add() raises; the
\* documents added before it stay.
UploadFails ==
  /\ pc = "upload"
  /\ \E k \in 0..(Len(noticias_json.data) - 1) :
       collection' = collection \o SubSeq(noticias_json.data, 1, k)
  /\ pc' = "aborted"
  /\ abort_at' = "upload"
  /\ UNCHANGED <<upstream, hash_file, pdf_file, noticias_json, new_hash, urls, todo,
                 news_list, run, start0, fetched, fail_snap, prev, resolved>>
  /\ UNCHANGED meta_vars

\* The scheduler starts main() again.
NextRun ==
  /\ pc \in {"skipped", "done", "aborted"}
  /\ run < MaxRuns
  /\ run' = run + 1
  /\ prev' = [detected |-> Len(fetched) >= 1 /\ pc # "skipped",
              fetched |-> fetched, new_hash |-> new_hash]
  /\ start0' = Snapshot
  /\ pc' = "start"
  /\ new_hash' = Empty
  /\ urls' = {}
  /\ todo' = {}
  /\ news_list' = << >>
  /\ abort_at' = "none"
  /\ fetched' = << >>
  /\ fail_snap' = << >>
  /\ resolved' = << >>
  /\ UNCHANGED <<upstream, hash_file, pdf_file, noticias_json, collection>>
  /\ UNCHANGED meta_vars

Next ==
  \/ Publish
  \/ HashFetch
  \/ HashFetchFails
  \/ Skip
  \/ Detect
  \/ Download
  \/ DownloadFails
  \/ SaveHash
  \/ Extract
  \/ ExtractFails
  \/ Process
  \/ WriteJson
  \/ NoNews
  \/ Upload
  \/ UploadFails
  \/ NextRun

Spec == Init /\ [][Next]_vars

\* ------------------------------------------------ get_metadata on its own
\* A page is fetched for a URL.
MetaFetch ==
  /\ m_pc = "idle"
  /\ m_url' \in PageUrls
  /\ m_page' \in Pages
  /\ m_pc' = "fetched"
  /\ UNCHANGED m_rec
  /\ UNCHANGED main_vars

\* get_metadata returns.
MetaResolve ==
  /\ m_pc = "fetched"
  /\ m_rec' = get_metadata(m_url, m_page).rec
  /\ m_pc' = "resolved"
  /\ UNCHANGED <<m_url, m_page>>
  /\ UNCHANGED main_vars

NextMeta == MetaFetch \/ MetaResolve

InitMeta == InitMetaIdle /\ InitMain /\ upstream = [status |-> 200, body |-> "pdfA"]

SpecMeta == InitMeta /\ [][NextMeta]_vars

\* ----------------------------------------------------------------- claims
\* The url extraction of this run has completed.
ExtractionDone ==
  \/ pc \in {"loop", "upload", "done"}
  \/ pc = "aborted" /\ abort_at \in {"metadata", "upload"}

\* Both GETs of the previous run and the first GET of this one returned the
\* same bytes, and the previous run detected a change.
SameBytesAgain ==
  /\ prev.detected
  /\ Len(prev.fetched) = 2
  /\ Len(fetched) >= 1
  /\ \A i \in 1..2 : prev.fetched[i].body = fetched[1].body

\* C1: when the previous run got past change detection and the upstream
\* returned the same bytes to all its GETs and to this run's hashing GET, this
\* run computes the same fingerprint, finds it in last_pdf_hash.txt, and
\* returns without a download, with the files and the collection as they were.
C1_ChangeGating ==
  SameBytesAgain =>
    /\ pc \in {"hashed", "skipped"}
    /\ new_hash = prev.new_hash
    /\ hash_file.exists /\ strip(hash_file.text) = new_hash
    /\ Len(fetched) = 1
    /\ Snapshot = start0

C1_Witness == SameBytesAgain /\ pc = "skipped" /\ run = 2

\* C2 as stated: the fingerprint file differs from its value at run start only
\* once link extraction has completed in that run.
C2_SavedOnlyAfterExtraction ==
  hash_file # start0.hash_file => ExtractionDone

\* C2 amended: the fingerprint file is overwritten only after the second GET
\* answered and its body was written to Sintesis.pdf in that run, with the
\* fingerprint of the hashing GET; a run that skips, or whose hashing or
\* download GET raises, leaves it as it was at run start.
C2_SavedOnlyAfterDownload ==
  /\ hash_file # start0.hash_file =>
       /\ Len(fetched) = 2
       /\ pdf_file = [exists |-> TRUE, body |-> fetched[2].body]
       /\ hash_file = [exists |-> TRUE, text |-> new_hash]
       /\ pc \in {"saved", "loop", "upload", "done", "aborted"}
       /\ abort_at \notin {"hash", "download"}
  /\ (pc \in {"start", "hashed", "detected", "downloaded", "skipped"}
        \/ abort_at \in {"hash", "download"})
       => hash_file = start0.hash_file

C2_Witness ==
  pc = "aborted" /\ abort_at = "extract" /\ hash_file # start0.hash_file

\* C3: once a GET of the upstream PDF has failed (unreachable, or a status
\* that is not 2xx), the fingerprint file, Sintesis.pdf, noticias.json and the
\* collection stay as they were before that GET: the run ends without
\* changing any of them.
C3_FetchFailureLeavesState ==
  fail_snap # << >> => Snapshot = fail_snap[1]

\* C4: get_metadata never ends the run; a failed fetch, status, decoding or
\* parse gives the record with only the link; and the loop reaches every URL
\* whatever the earlier ones did.
C4_ArticleFailuresAbsorbed ==
  /\ abort_at # "metadata"
  /\ \A i \in 1..Len(resolved) :
       resolved[i].failed => resolved[i].rec = EmptyRecord(resolved[i].link)
  /\ pc = "loop" => todo = urls \ {resolved[i].link : i \in 1..Len(resolved)}
  /\ (pc \in {"upload", "done"} \/ (pc = "aborted" /\ abort_at = "upload")) =>
       /\ {resolved[i].link : i \in 1..Len(resolved)} = urls
       /\ Len(resolved) = Cardinality(urls)

C4_Witness ==
  /\ pc = "done"
  /\ Len(resolved) = 2
  /\ resolved[1].failed
  /\ ~resolved[2].failed /\ resolved[2].rec.title # Empty

\* C5: when a run that went past change detection has completed, the
\* collection is what it was at run start followed by one document for each
\* resolved record that has a title, a description or an image, and nothing
\* else.
C5_AdditiveSync ==
  pc = "done" =>
    collection =
      start0.collection \o
        SelectSeq([i \in 1..Len(resolved) |-> resolved[i].rec],
                  LAMBDA n : n.title # Empty \/ n.description # Empty \/ n.img # Empty)

C5_Witness ==
  /\ pc = "done"
  /\ start0.collection # << >>
  /\ Len(collection) = Len(start0.collection) + 1
  /\ Len(resolved) = 2
  /\ \E i \in 1..2 : resolved[i].rec = EmptyRecord(resolved[i].link)
  /\ \E i \in 1..2 : resolved[i].rec.title = Empty /\ resolved[i].rec.img # Empty

\* C10: the fingerprint written in a run is the hash of the bytes that run
\* saved to Sintesis.pdf.
C10_FingerprintOfSavedBytes ==
  hash_file # start0.hash_file =>
    strip(hash_file.text) = <<Md5(pdf_file.body)>>

\* The host of an http(s) URL, and the hosts the claim excludes: the
\* publication's own domain and the social networks.
Host(u) == u[2]
ExcludedDomains == {"labancaria.org", "facebook.com"}

\* C8: the URLs handed to metadata resolution start with http:// or https://
\* and none has an excluded host (being a set, they hold no URL twice).
C8_CandidateLinks ==
  \A u \in urls : StartsWithHttp(u) /\ Host(u) \notin ExcludedDomains

\* The page was fetched, decoded and parsed, and get_metadata has returned.
Parsed == m_pc = "resolved" /\ m_page.fetch = "ok"

\* C6 as stated: the title is the first non-empty of og:title, twitter:title
\* and <title>.
C6_MetaTitleFirst ==
  Parsed =>
    LET og == strip(m_page.og_title.content)
        tw == strip(m_page.tw_title.content)
        el == strip(m_page.title.content)
    IN  m_rec.title = IF og # Empty THEN og ELSE IF tw # Empty THEN tw ELSE el

\* C6 amended: the title is the stripped text of <title> when that is not
\* empty; otherwise the stripped content of og:title when that tag has a
\* non-empty content; otherwise the stripped content of twitter:title when
\* that tag has a non-empty content; otherwise empty.
C6_TitleElementFirst ==
  Parsed =>
    LET og == m_page.og_title.content
        tw == m_page.tw_title.content
        el == strip(m_page.title.content)
    IN  /\ el # Empty => m_rec.title = el
        /\ el = Empty /\ og # Empty => m_rec.title = strip(og)
        /\ el = Empty /\ og = Empty /\ tw # Empty => m_rec.title = strip(tw)
        /\ el = Empty /\ og = Empty /\ tw = Empty => m_rec.title = Empty

C6_Witness ==
  /\ Parsed
  /\ strip(m_page.title.content) = <<"Title">>
  /\ strip(m_page.og_title.content) = <<"OgTitle">>
  /\ m_rec.title = <<"Title">>

\* C7: the description is the stripped content of the first of description,
\* og:description and twitter:description whose content is not empty.
C7_DescriptionFirstNonEmpty ==
  Parsed =>
    LET d == m_page.desc.content
        og == m_page.og_desc.content
        tw == m_page.tw_desc.content
    IN  m_rec.description =
          strip(IF d # Empty THEN d ELSE IF og # Empty THEN og ELSE tw)

\* C9: the image of a returned record is empty, or an absolute http(s) URL
\* without "logo", "default" or "blank" in any letter case.
C9_ImageField ==
  m_pc = "resolved" =>
    \/ m_rec.img = Empty
    \/ /\ StartsWithHttp(m_rec.img)
       /\ ~Contains(lower(m_rec.img), "logo")
       /\ ~Contains(lower(m_rec.img), "default")
       /\ ~Contains(lower(m_rec.img), "blank")

====
